---- MODULE Spec2Model ----
(***************************************************************************)
(* A model of the GA4 analytics tool server: the query pipeline of         *)
(* ga4_service.get_ga4_data behind the query_ga4_data tool (input          *)
(* validation, credential lookup, token refresh, client construction,      *)
(* request building, backend call, response normalisation) and the         *)
(* date-range helper of utils.get_date_suggestions.                        *)
(*                                                                         *)
(* Conventions.  A Python string that the code only compares or copies is  *)
(* a TLA+ string; a string the code parses, strips or formats is a         *)
(* sequence of one-character strings.  None is the empty sequence <<>> and *)
(* a present optional value v is <<v>>.  A message built by an f-string is *)
(* the sequence of its fragments.  A JSON value (filters, order_by) is a   *)
(* record [kind, s, d]: kind "str" | "int" | "bool" | "dict", s the        *)
(* scalar's text, d the dict's entries [k, v] in insertion order.          *)
(***************************************************************************)
EXTENDS Integers, Sequences, FiniteSets, TLC

VARIABLES
    pc,             \* where the tool invocation stands
    input,          \* the GA4QueryInput of the invocation, or None
    db,             \* the user_ga_connections table, in storage order
    calls,          \* the external calls of the invocation, in order
    refresh_token,  \* local of get_ga4_data, or None
    property_id,    \* local of get_ga4_data, or None
    request,        \* the RunReportRequest built, or None
    response,       \* the backend's RunReportResponse, or None
    result,         \* what the tool returned, or None
    now             \* the date of datetime.now(), or None

vars == <<pc, input, db, calls, refresh_token, property_id, request,
          response, result, now>>

(***************************************************************************)
(* Bounds of the model.                                                    *)
(***************************************************************************)
MaxDims == 2
MaxFilterEntries == 2
MaxOrderBy == 2
MaxRows == 2
MaxDbRows == 2
MaxHeaders == 2
MinYear == 2023
MaxYear == 2025

(***************************************************************************)
(* Generic helpers.                                                        *)
(***************************************************************************)
SeqsUpTo(S, n) == UNION { [1..k -> S] : k \in 0..n }

Range(s) == { s[i] : i \in 1..Len(s) }

None == <<>>

Some(v) == <<v>>

IsNone(o) == o = <<>>

(***************************************************************************)
(* JSON values as Python sees them.                                        *)
(***************************************************************************)
JStr(s) == [kind |-> "str", s |-> s, d |-> <<>>]

JInt(s) == [kind |-> "int", s |-> s, d |-> <<>>]

JBool(s) == [kind |-> "bool", s |-> s, d |-> <<>>]

JDict(entries) == [kind |-> "dict", s |-> "", d |-> entries]

Entry(k, v) == [k |-> k, v |-> v]

HasKey(x, k) == \E i \in 1..Len(x.d) : x.d[i].k = k

GetKey(x, k) == x.d[CHOOSE i \in 1..Len(x.d) : x.d[i].k = k].v

\* Python values paired with "raised an exception"
Ok(v) == [ok |-> TRUE, v |-> v]

Raise == [ok |-> FALSE, v |-> JStr("")]

\* the pairs <<needle, haystack>> of the strings of the model with needle a
\* substring of haystack (Python's `needle in haystack` on two strings)
SubstringPairs == { <<"filter", "filter">>, <<"filter", "myfilter">> }

\* `k in x`: key presence on a dict, substring on a str, TypeError otherwise
PyIn(k, x) ==
    CASE x.kind = "dict" -> Ok(JBool(IF HasKey(x, k) THEN "true" ELSE "false"))
      [] x.kind = "str"  -> Ok(JBool(IF <<k, x.s>> \in SubstringPairs THEN "true" ELSE "false"))
      [] OTHER           -> Raise

\* `x[k]`: KeyError on a dict without k, TypeError on a str, int or bool
PySubscript(x, k) ==
    IF x.kind = "dict" /\ HasKey(x, k) THEN Ok(GetKey(x, k)) ELSE Raise

(***************************************************************************)
(* Filter expressions (google.analytics.data_v1beta FilterExpression).     *)
(***************************************************************************)
NoExpr == [tag |-> "none", field_name |-> "", value |-> "", expressions |-> <<>>]

RaisedExpr == [tag |-> "raise", field_name |-> "", value |-> "", expressions |-> <<>>]

FilterExpr(f, v) == [tag |-> "filter", field_name |-> f, value |-> v, expressions |-> <<>>]

AndGroup(es) == [tag |-> "and_group", field_name |-> "", value |-> "", expressions |-> es]

\* FilterExpression(filter=Filter(field_name=key, string_filter=
\* Filter.StringFilter(value=value))): the message constructors take a str for
\* a string field and raise on an int, a bool or a dict
StringFilterExpr(key, value) ==
    IF key.kind = "str" /\ value.kind = "str"
    THEN FilterExpr(key.s, value.s)
    ELSE RaisedExpr

\* the loop of parse_simple_filters: the expressions of a prefix of the items
RECURSIVE SimpleExpressions(_)
SimpleExpressions(items) ==
    IF items = <<>> THEN <<>>
    ELSE SimpleExpressions(SubSeq(items, 1, Len(items) - 1))
           \o << StringFilterExpr(JStr(items[Len(items)].k), items[Len(items)].v) >>

\* variant: the predicates taken in reverse insertion order
parse_simple_filters_rev(filter_dict) ==
    LET expressions == SimpleExpressions(filter_dict.d)
        n == Len(expressions)
    IN  IF \E i \in 1..n : expressions[i].tag = "raise"
        THEN RaisedExpr
        ELSE IF n = 1 THEN expressions[1]
        ELSE AndGroup([i \in 1..n |-> expressions[n + 1 - i]])

parse_simple_filters(filter_dict) ==
    LET expressions == SimpleExpressions(filter_dict.d)
    IN  IF \E i \in 1..Len(expressions) : expressions[i].tag = "raise"
        THEN RaisedExpr
        ELSE IF Len(expressions) = 1 THEN expressions[1]
        ELSE AndGroup(expressions)

\* FilterExpression(filter=Filter(field_name=filter_def["field_name"],
\*   string_filter=Filter.StringFilter(value=filter_def["string_filter"]["value"])))
FilterFromDef(filter_def) ==
    LET fn == PySubscript(filter_def, "field_name")
        sf == PySubscript(filter_def, "string_filter")
        val == IF sf.ok THEN PySubscript(sf.v, "value") ELSE Raise
    IN  IF fn.ok /\ val.ok THEN StringFilterExpr(fn.v, val.v) ELSE RaisedExpr

build_filter_expression(filters) ==
    IF filters.d = <<>> THEN NoExpr
    ELSE
      LET direct == IF HasKey(filters, "filter")
                    THEN FilterFromDef(GetKey(filters, "filter"))
                    ELSE parse_simple_filters(filters)
      IN  IF HasKey(filters, "dimension_filter")
          THEN LET filter_config == GetKey(filters, "dimension_filter")
                   has == PyIn("filter", filter_config)
               IN  IF ~has.ok THEN RaisedExpr
                   ELSE IF has.v.s = "true"
                        THEN LET filter_def == PySubscript(filter_config, "filter")
                             IN  IF filter_def.ok THEN FilterFromDef(filter_def.v)
                                 ELSE RaisedExpr
                        ELSE direct
          ELSE direct

(***************************************************************************)
(* Result envelopes and messages.                                          *)
(***************************************************************************)
\* str(e) of an exception whose text is fixed outside this repository
ExcText == "<exception text>"

\* variant: a failure envelope that leaves out data and rowCount
FailureWithoutData(msg) == [success |-> FALSE, error |-> msg]

Failure(msg) == [success |-> FALSE, error |-> msg, data |-> <<>>, rowCount |-> 0]

MsgInvalidRequest == << "At least one dimension or metric must be specified" >>

MsgInvalidFilter == << "Invalid filters format: ", ExcText >>

MsgBuildFailed == << "Failed to build GA4 request: ", ExcText >>

MsgProcessFailed == << "Failed to process GA4 response: ", ExcText >>

(***************************************************************************)
(* The request builder of get_ga4_data.                                    *)
(***************************************************************************)
\* str.lower() on the granularity strings of the model
Lower(s) == CASE s = "Daily" -> "daily" [] s = "WEEKLY" -> "weekly" [] OTHER -> s

\* granularity_map.get(key, default)
granularity_map(key, default) ==
    CASE key = "daily"   -> "date"
      [] key = "weekly"  -> "week"
      [] key = "monthly" -> "month"
      [] OTHER           -> default

\* variant: the mapped dimension put in front of the user's dimensions
request_dimensions_front(dims, granularity) ==
    IF ~IsNone(granularity) /\ granularity[1] # "" /\ granularity[1] \notin Range(dims)
    THEN LET gran_dim == granularity_map(Lower(granularity[1]), granularity[1])
         IN  IF gran_dim \notin Range(dims) THEN <<gran_dim>> \o dims ELSE dims
    ELSE dims

\* the dimension names of the request: the user's, then the granularity's
request_dimensions(dims, granularity) ==
    IF ~IsNone(granularity) /\ granularity[1] # "" /\ granularity[1] \notin Range(dims)
    THEN LET gran_dim == granularity_map(Lower(granularity[1]), granularity[1])
         IN  IF gran_dim \notin Range(dims) THEN Append(dims, gran_dim) ELSE dims
    ELSE dims

OrderBy(kind, name, desc) == [kind |-> kind, name |-> name, desc |-> desc]

RaisedOrder == [kind |-> "raise", name |-> "", desc |-> FALSE]

SkippedOrder == [kind |-> "skip", name |-> "", desc |-> FALSE]

\* order.get("desc", False) handed to OrderBy(desc=...): a bool, or a raise
\* of the message constructor on a str or a dict
OrderDesc(order) ==
    IF ~HasKey(order, "desc") THEN Ok(JBool("false"))
    ELSE LET v == GetKey(order, "desc")
         IN  IF v.kind = "bool" THEN Ok(v) ELSE Raise

\* variant: the dimension key looked at before the metric key
OrderClause_dimension_first(order) ==
    LET tagged(key, name_key, kind) ==
            LET inner == PySubscript(GetKey(order, key), name_key)
                desc == OrderDesc(order)
            IN  IF inner.ok /\ inner.v.kind = "str" /\ desc.ok
                THEN OrderBy(kind, inner.v.s, desc.v.s = "true")
                ELSE RaisedOrder
    IN  IF HasKey(order, "dimension") THEN tagged("dimension", "dimension_name", "dimension")
        ELSE IF HasKey(order, "metric")
             THEN tagged("metric", "metric_name", "metric")
             ELSE SkippedOrder

\* one clause of order_by: OrderBy(metric=...), OrderBy(dimension=...),
\* nothing, or an exception
OrderClause(order) ==
    LET tagged(key, name_key, kind) ==
            LET inner == PySubscript(GetKey(order, key), name_key)
                desc == OrderDesc(order)
            IN  IF inner.ok /\ inner.v.kind = "str" /\ desc.ok
                THEN OrderBy(kind, inner.v.s, desc.v.s = "true")
                ELSE RaisedOrder
    IN  IF HasKey(order, "metric") THEN tagged("metric", "metric_name", "metric")
        ELSE IF HasKey(order, "dimension")
             THEN tagged("dimension", "dimension_name", "dimension")
             ELSE SkippedOrder

\* the loop over input.order_by: the compiled clauses, skipped ones dropped
RECURSIVE OrderBys(_)
OrderBys(order_by) ==
    IF order_by = <<>> THEN <<>>
    ELSE LET c == OrderClause(order_by[Len(order_by)])
             before == OrderBys(SubSeq(order_by, 1, Len(order_by) - 1))
         IN  IF c.kind = "skip" THEN before ELSE Append(before, c)

\* RunReportRequest(...) of the build stage, or the envelope it returns
BuildRequest(inp, prop) ==
    LET dimensions == request_dimensions(inp.dimensions, inp.granularity)
        dimension_filter ==
            IF IsNone(inp.filters) \/ inp.filters[1].d = <<>>
            THEN NoExpr
            ELSE build_filter_expression(inp.filters[1])
        order_bys == IF IsNone(inp.order_by) THEN <<>> ELSE OrderBys(inp.order_by[1])
    IN  IF dimension_filter.tag = "raise"
        THEN [ok |-> FALSE, envelope |-> Failure(MsgInvalidFilter)]
        ELSE IF \E i \in 1..Len(order_bys) : order_bys[i].kind = "raise"
        THEN [ok |-> FALSE, envelope |-> Failure(MsgBuildFailed)]
        ELSE [ok |-> TRUE,
              request |-> [property |-> << "properties/", prop >>,
                           dimensions |-> dimensions,
                           metrics |-> inp.metrics,
                           date_ranges |-> << <<inp.start_date, inp.end_date>> >>,
                           limit |-> inp.limit,
                           currency_code |-> IF ~IsNone(inp.currency_code) /\ inp.currency_code[1] # ""
                                             THEN inp.currency_code ELSE None,
                           keep_empty_rows |-> inp.include_empty_rows,
                           dimension_filter |-> dimension_filter,
                           order_bys |-> IF order_bys # <<>> THEN Some(order_bys) ELSE None]]

(***************************************************************************)
(* The response normaliser of get_ga4_data.                                *)
(***************************************************************************)
Digits == << "0", "1", "2", "3", "4", "5", "6", "7", "8", "9" >>

IsDigit(c) == \E i \in 1..10 : Digits[i] = c

DigitValue(c) == (CHOOSE i \in 1..10 : Digits[i] = c) - 1

\* str.strip() on a sequence of characters
RECURSIVE LStrip(_)
LStrip(s) == IF s # <<>> /\ s[1] = " " THEN LStrip(Tail(s)) ELSE s

RECURSIVE RStrip(_)
RStrip(s) ==
    IF s # <<>> /\ s[Len(s)] = " " THEN RStrip(SubSeq(s, 1, Len(s) - 1)) ELSE s

Strip(s) == RStrip(LStrip(s))

\* the number a run of digits and underscores denotes
RECURSIVE DigitsValue(_)
DigitsValue(s) ==
    IF s = <<>> THEN 0
    ELSE LET before == DigitsValue(SubSeq(s, 1, Len(s) - 1))
         IN  IF s[Len(s)] = "_" THEN before ELSE 10 * before + DigitValue(s[Len(s)])

\* int(value) on a str: surrounding blanks, an optional sign, digits with
\* single underscores between them; ValueError on anything else
PyInt(value) ==
    LET t == Strip(value)
        signed == t # <<>> /\ t[1] \in {"+", "-"}
        body == IF signed THEN Tail(t) ELSE t
        wellformed ==
            /\ body # <<>>
            /\ \A i \in 1..Len(body) : IsDigit(body[i]) \/ body[i] = "_"
            /\ IsDigit(body[1]) /\ IsDigit(body[Len(body)])
            /\ \A i \in 1..(Len(body) - 1) : ~(body[i] = "_" /\ body[i + 1] = "_")
    IN  IF wellformed
        THEN [ok |-> TRUE, n |-> IF signed /\ t[1] = "-" THEN 0 - DigitsValue(body) ELSE DigitsValue(body)]
        ELSE [ok |-> FALSE, n |-> 0]

EmptyRow == [k \in {} |-> <<>>]

\* row_data[name] = value
SetItem(row_data, name, value) ==
    [k \in DOMAIN row_data \cup {name} |-> IF k = name THEN value ELSE row_data[k]]

\* for i, v in enumerate(values): row_data[headers[i].name] = v.value
\* (the caller has checked that headers[i] exists for every i)
RECURSIVE AddValues(_, _, _)
AddValues(row_data, headers, values) ==
    IF values = <<>> THEN row_data
    ELSE SetItem(AddValues(row_data, headers, SubSeq(values, 1, Len(values) - 1)),
                 headers[Len(values)], values[Len(values)])

\* the sessions a row adds to total_sessions
row_sessions_any_metric(metric_headers, metric_values) ==
    LET F[i \in 0..Len(metric_values)] ==
            IF i = 0 THEN 0
            ELSE F[i - 1] + IF PyInt(metric_values[i]).ok
                             THEN PyInt(metric_values[i]).n
                             ELSE 0
    IN  F[Len(metric_values)]

row_sessions(metric_headers, metric_values) ==
    LET F[i \in 0..Len(metric_values)] ==
            IF i = 0 THEN 0
            ELSE F[i - 1] + IF metric_headers[i] = "sessions" /\ PyInt(metric_values[i]).ok
                             THEN PyInt(metric_values[i]).n
                             ELSE 0
    IN  F[Len(metric_values)]

\* headers[i] raises IndexError for a value beyond the headers
row_raises(resp, row) ==
    \/ Len(row.dimension_values) > Len(resp.dimension_headers)
    \/ Len(row.metric_values) > Len(resp.metric_headers)

\* variant: only the dimension values are named
convert_row_dims_only(resp, row) ==
    AddValues(EmptyRow, resp.dimension_headers, row.dimension_values)

convert_row(resp, row) ==
    AddValues(AddValues(EmptyRow, resp.dimension_headers, row.dimension_values),
              resp.metric_headers, row.metric_values)

\* the loop over response.rows from row i on, rows and total_sessions as
\* they stand before it: [ok, rows, total_sessions]
\* variant: a row that raises is skipped
RECURSIVE normalize_skip_bad(_, _, _, _)
normalize_skip_bad(resp, i, rows, total_sessions) ==
    IF i > Len(resp.rows) THEN [ok |-> TRUE, rows |-> rows, total_sessions |-> total_sessions]
    ELSE IF Len(resp.rows[i].dimension_values) > Len(resp.dimension_headers)
            \/ Len(resp.rows[i].metric_values) > Len(resp.metric_headers)
         THEN normalize_skip_bad(resp, i + 1, rows, total_sessions)
         ELSE normalize_skip_bad(resp, i + 1, Append(rows, convert_row(resp, resp.rows[i])),
                                 total_sessions + row_sessions(resp.metric_headers, resp.rows[i].metric_values))

RECURSIVE normalize(_, _, _, _)
normalize(resp, i, rows, total_sessions) ==
    IF i > Len(resp.rows) THEN [ok |-> TRUE, rows |-> rows, total_sessions |-> total_sessions]
    ELSE IF row_raises(resp, resp.rows[i])
         THEN [ok |-> FALSE, rows |-> <<>>, total_sessions |-> 0]
         ELSE normalize(resp, i + 1, Append(rows, convert_row(resp, resp.rows[i])),
                        total_sessions + row_sessions(resp.metric_headers, resp.rows[i].metric_values))

\* the envelope of the response-processing stage
ProcessResponse(resp, inp, prop) ==
    LET r == normalize(resp, 1, <<>>, 0)
    IN  IF r.ok
        THEN [success |-> TRUE,
              data |-> r.rows,
              rowCount |-> Len(r.rows),
              totalSessions |-> r.total_sessions,
              dimensions |-> inp.dimensions,
              metrics |-> inp.metrics,
              dateRange |-> inp.start_date \o << " to " >> \o inp.end_date,
              propertyId |-> prop]
        ELSE Failure(MsgProcessFailed)

(***************************************************************************)
(* Calendar dates: datetime, timedelta and strftime as get_date_suggestions *)
(* and the date validator use them.  A date is <<year, month, day>>.        *)
(***************************************************************************)
IsLeap(y) == y % 4 = 0 /\ (y % 100 # 0 \/ y % 400 = 0)

DaysInMonth(y, m) ==
    IF m = 2 THEN (IF IsLeap(y) THEN 29 ELSE 28)
    ELSE IF m \in {4, 6, 9, 11} THEN 30 ELSE 31

DaysBeforeYear(y) ==
    (y - 1) * 365 + (y - 1) \div 4 - (y - 1) \div 100 + (y - 1) \div 400

RECURSIVE DaysBeforeMonth(_, _)
DaysBeforeMonth(y, m) ==
    IF m = 1 THEN 0 ELSE DaysBeforeMonth(y, m - 1) + DaysInMonth(y, m - 1)

\* date.toordinal(): 0001-01-01 is day 1
ToOrdinal(d) == DaysBeforeYear(d[1]) + DaysBeforeMonth(d[1], d[2]) + d[3]

\* date.fromordinal()
FromOrdinal(n) ==
    LET y == CHOOSE yy \in (n \div 366)..(n \div 365 + 1) :
                 DaysBeforeYear(yy) < n /\ n <= DaysBeforeYear(yy + 1)
        m == CHOOSE mm \in 1..12 :
                 /\ DaysBeforeYear(y) + DaysBeforeMonth(y, mm) < n
                 /\ n <= DaysBeforeYear(y) + DaysBeforeMonth(y, mm) + DaysInMonth(y, mm)
    IN  << y, m, n - DaysBeforeYear(y) - DaysBeforeMonth(y, m) >>

\* d - timedelta(days=n)
MinusDays(d, n) == FromOrdinal(ToOrdinal(d) - n)

\* d.replace(day=day)
ReplaceDay(d, day) == << d[1], d[2], day >>

\* n as k decimal digits, zero padded
RECURSIVE Padded(_, _)
Padded(n, k) ==
    IF k = 0 THEN <<>> ELSE Append(Padded(n \div 10, k - 1), Digits[(n % 10) + 1])

\* d.strftime("%Y-%m-%d")
Strftime(d) == Padded(d[1], 4) \o << "-" >> \o Padded(d[2], 2) \o << "-" >> \o Padded(d[3], 2)

DateRange(start, end) == [start_date |-> Strftime(start), end_date |-> Strftime(end)]

\* variant: last month taken as the 30 days before the first of this month
last_month_30_days(today) ==
    DateRange(MinusDays(today, 30), MinusDays(today, 1))

\* the "last_month" entry of get_date_suggestions
last_month(today) ==
    DateRange(ReplaceDay(MinusDays(ReplaceDay(today, 1), 1), 1),
              MinusDays(ReplaceDay(today, 1), 1))

get_date_suggestions(today) ==
    LET yesterday == MinusDays(today, 1)
        week_ago == MinusDays(today, 7)
        month_ago == MinusDays(today, 30)
        year_ago == MinusDays(today, 365)
    IN  [success |-> TRUE,
         dateRanges |->
            [today |-> DateRange(today, today),
             yesterday |-> DateRange(yesterday, yesterday),
             last_7_days |-> DateRange(week_ago, yesterday),
             last_30_days |-> DateRange(month_ago, yesterday),
             last_year |-> DateRange(year_ago, yesterday),
             this_month |-> DateRange(ReplaceDay(today, 1), today),
             last_month |-> last_month(today)],
         currentDate |-> Strftime(today)]

\* the dates datetime.now() can give within the years of the model
Dates == { d \in (MinYear..MaxYear) \X (1..12) \X (1..31) : d[3] <= DaysInMonth(d[1], d[2]) }

(***************************************************************************)
(* The credential store and database.get_user_credentials.                 *)
(***************************************************************************)
\* a user_ga_connections row: user_id and refresh_token are strings,
\* property_id is None, or a string that may be empty
ConnRow(u, t, p) == [user_id |-> u, refresh_token |-> t, property_id |-> p]

\* select(...).eq("user_id", user_id): the user's rows in storage order
RECURSIVE SelectRows(_, _)
SelectRows(table, user_id) ==
    IF table = <<>> THEN <<>>
    ELSE IF table[1].user_id = user_id
         THEN << table[1] >> \o SelectRows(Tail(table), user_id)
         ELSE SelectRows(Tail(table), user_id)

\* Python truth of row["property_id"]: neither None nor ""
Truthy(p) == ~IsNone(p) /\ p[1] # ""

RECURSIVE ValidRows(_)
ValidRows(data) ==
    IF data = <<>> THEN <<>>
    ELSE IF Truthy(data[1].property_id)
         THEN << data[1] >> \o ValidRows(Tail(data))
         ELSE ValidRows(Tail(data))

MsgUserNotFound(user_id) == << "User " >> \o user_id \o << " not found in Supabase." >>

MsgNoProperty(user_id) == << "No property_id found for user " >> \o user_id

CredsRaise(msg) == [ok |-> FALSE, error |-> msg, refresh_token |-> "", property_id |-> ""]

\* variant: the last usable row taken instead of the first
get_user_credentials_last(table, user_id) ==
    LET data == SelectRows(table, user_id)
        valid_rows == ValidRows(data)
    IN  IF data # <<>>
        THEN IF valid_rows = <<>>
             THEN CredsRaise(MsgNoProperty(user_id))
             ELSE [ok |-> TRUE, error |-> <<>>,
                   refresh_token |-> valid_rows[Len(valid_rows)].refresh_token,
                   property_id |-> valid_rows[Len(valid_rows)].property_id[1]]
        ELSE CredsRaise(MsgUserNotFound(user_id))

get_user_credentials(table, user_id) ==
    LET data == SelectRows(table, user_id)
        valid_rows == ValidRows(data)
    IN  IF data # <<>>
        THEN IF valid_rows = <<>>
             THEN CredsRaise(MsgNoProperty(user_id))
             ELSE [ok |-> TRUE, error |-> <<>>,
                   refresh_token |-> valid_rows[1].refresh_token,
                   property_id |-> valid_rows[1].property_id[1]]
        ELSE CredsRaise(MsgUserNotFound(user_id))

(***************************************************************************)
(* The input boundary: the validators of models.GA4QueryInput.             *)
(***************************************************************************)
MinLimit == 1

MaxLimit == 10000

\* re.match(r'^\d{4}-\d{2}-\d{2}$', v)
DateFormatOk(v) ==
    /\ Len(v) = 10
    /\ \A i \in {1, 2, 3, 4, 6, 7, 9, 10} : IsDigit(v[i])
    /\ v[5] = "-" /\ v[8] = "-"

\* datetime.strptime(v, '%Y-%m-%d') does not raise
DateParses(v) ==
    LET y == DigitsValue(SubSeq(v, 1, 4))
        m == DigitsValue(SubSeq(v, 6, 7))
        d == DigitsValue(SubSeq(v, 9, 10))
    IN  y >= 1 /\ m \in 1..12 /\ d >= 1 /\ d <= DaysInMonth(y, m)

validate_date_format(field, v) ==
    IF ~DateFormatOk(v) THEN << << field, "Date must be in YYYY-MM-DD format" >> >>
    ELSE IF ~DateParses(v) THEN << << field, "Invalid date" >> >>
    ELSE <<>>

\* variant: the metrics validator left out
validate_metrics_accepts_empty(v) == <<>>

validate_metrics_not_empty(v) ==
    IF v = <<>> THEN << << "metrics", "At least one metric must be specified" >> >> ELSE <<>>

\* variant: only the lower bound of the limit is checked
validate_limit_lower_only(v) ==
    IF ~IsNone(v) /\ v[1] < MinLimit
    THEN << << "limit", "Limit must be between 1 and 10000" >> >>
    ELSE <<>>

validate_limit(v) ==
    IF ~IsNone(v) /\ (v[1] < MinLimit \/ v[1] > MaxLimit)
    THEN << << "limit", "Limit must be between 1 and 10000" >> >>
    ELSE <<>>

validate_user_id(v) ==
    IF v = <<>> \/ Strip(v) = <<>> THEN << << "user_id", "User ID cannot be empty" >> >> ELSE <<>>

\* the errors of GA4QueryInput(**raw), in field order
ValidationErrors(raw) ==
    validate_user_id(raw.user_id)
      \o validate_metrics_not_empty(raw.metrics)
      \o validate_date_format("start_date", raw.start_date)
      \o validate_date_format("end_date", raw.end_date)
      \o validate_limit(raw.limit)

\* the validated model: user_id stripped, the other fields as given
Validated(raw) == [raw EXCEPT !.user_id = Strip(raw.user_id)]

(***************************************************************************)
(* The stages of one query_ga4_data invocation.                            *)
(***************************************************************************)
MsgCredentials(text) == << "Failed to retrieve user credentials: " >> \o text

MsgRefresh(text) == << "Failed to refresh authentication tokens: " >> \o text

MsgClient == << "Failed to create GA4 client: ", ExcText >>

MsgBackend == << "GA4 API request failed: ", ExcText >>

\* str(e) of the exceptions always_refresh_user_tokens raises
RefreshErrors ==
    { << "Failed to refresh token: ", "HTTP 400: invalid_grant" >>,
      << "No access token received from Google" >>,
      << "Network error while refreshing token: ", ExcText >> }

Fresh ==
    /\ input = None /\ calls = <<>> /\ refresh_token = None /\ property_id = None
    /\ request = None /\ response = None /\ result = None /\ now = None

\* the framework builds GA4QueryInput from the caller's arguments and, when
\* the validators accept them, enters query_ga4_data
QueryCall(raws) ==
    /\ pc = "idle"
    /\ \E raw \in raws :
         IF ValidationErrors(raw) = <<>>
         THEN /\ pc' = "lookup"
              /\ input' = Some(Validated(raw))
              /\ result' = None
         ELSE /\ pc' = "rejected"
              /\ input' = Some(raw)
              /\ result' = Some([validation_errors |-> ValidationErrors(raw)])
    /\ calls' = <<>>
    /\ UNCHANGED <<db, refresh_token, property_id, request, response, now>>

\* variant: the override is not looked at
override_property_never(override, resolved) == resolved

\* `if input.property_id: property_id = input.property_id`
override_property(override, resolved) ==
    IF ~IsNone(override) /\ override[1] # "" THEN override[1] ELSE resolved

\* get_user_credentials(input.user_id), then the property override
LookupCredentials ==
    /\ pc = "lookup"
    /\ calls' = Append(calls, "credential_lookup")
    /\ \E reachable \in BOOLEAN :
         LET c == IF reachable THEN get_user_credentials(db, input[1].user_id)
                  ELSE CredsRaise(<< ExcText >>)
             override == input[1].property_id
         IN  IF c.ok
             THEN /\ refresh_token' = Some(c.refresh_token)
                  /\ property_id' = Some(override_property(override, c.property_id))
                  /\ pc' = "refresh"
                  /\ result' = result
             ELSE /\ result' = Some(Failure(MsgCredentials(c.error)))
                  /\ pc' = "done"
                  /\ UNCHANGED <<refresh_token, property_id>>
    /\ UNCHANGED <<input, db, request, response, now>>

\* variant: a failed refresh is attempted a second time
RefreshTokens_retry ==
    /\ pc = "refresh"
    /\ calls' = Append(calls, "token_refresh")
    /\ \E outcome \in {<<>>} \cup RefreshErrors :
         IF outcome = <<>>
         THEN pc' = "client" /\ result' = result
         ELSE IF calls = << "credential_lookup" >>
         THEN pc' = "refresh" /\ result' = result
         ELSE pc' = "done" /\ result' = Some(Failure(MsgRefresh(outcome)))
    /\ UNCHANGED <<input, db, refresh_token, property_id, request, response, now>>

\* always_refresh_user_tokens(refresh_token)
RefreshTokens ==
    /\ pc = "refresh"
    /\ calls' = Append(calls, "token_refresh")
    /\ \E outcome \in {<<>>} \cup RefreshErrors :
         IF outcome = <<>>
         THEN pc' = "client" /\ result' = result
         ELSE pc' = "done" /\ result' = Some(Failure(MsgRefresh(outcome)))
    /\ UNCHANGED <<input, db, refresh_token, property_id, request, response, now>>

\* BetaAnalyticsDataClient(credentials=creds)
CreateClient ==
    /\ pc = "client"
    /\ \E constructed \in BOOLEAN :
         IF constructed
         THEN pc' = "build" /\ result' = result
         ELSE pc' = "done" /\ result' = Some(Failure(MsgClient))
    /\ UNCHANGED <<input, db, calls, refresh_token, property_id, request, response, now>>

\* the input check of get_ga4_data, then the request build
BuildStage ==
    /\ pc = "build"
    /\ IF input[1].dimensions = <<>> /\ input[1].metrics = <<>>
       THEN /\ result' = Some(Failure(MsgInvalidRequest))
            /\ pc' = "done"
            /\ request' = request
       ELSE LET b == BuildRequest(input[1], property_id[1])
            IN  IF b.ok
                THEN request' = Some(b.request) /\ pc' = "execute" /\ result' = result
                ELSE request' = request /\ pc' = "done" /\ result' = Some(b.envelope)
    /\ UNCHANGED <<input, db, calls, refresh_token, property_id, response, now>>

\* client.run_report(request): the backend answers, or the call raises
ExecuteRequest(responses) ==
    /\ pc = "execute"
    /\ calls' = Append(calls, "run_report")
    /\ \E answer \in {None} \cup { Some(r) : r \in responses } :
         IF IsNone(answer)
         THEN pc' = "done" /\ result' = Some(Failure(MsgBackend)) /\ response' = response
         ELSE pc' = "process" /\ result' = result /\ response' = answer
    /\ UNCHANGED <<input, db, refresh_token, property_id, request, now>>

\* the conversion of the response, and the return through query_ga4_data
ProcessStage ==
    /\ pc = "process"
    /\ result' = Some(ProcessResponse(response[1], input[1], property_id[1]))
    /\ pc' = "done"
    /\ UNCHANGED <<input, db, calls, refresh_token, property_id, request, response, now>>

\* get_common_date_ranges()
DateRangesCall ==
    /\ pc = "idle"
    /\ \E today \in Dates :
         /\ now' = Some(today)
         /\ result' = Some(get_date_suggestions(today))
    /\ pc' = "dates_done"
    /\ UNCHANGED <<input, db, calls, refresh_token, property_id, request, response>>

\* the invocation is over; nothing of it is kept
Return ==
    /\ pc \in {"done", "rejected", "dates_done"}
    /\ pc' = "idle"
    /\ input' = None /\ calls' = <<>> /\ refresh_token' = None /\ property_id' = None
    /\ request' = None /\ response' = None /\ result' = None /\ now' = None
    /\ UNCHANGED db

(***************************************************************************)
(* The inputs of the model.                                                *)
(***************************************************************************)
U1 == << "u", "1" >>

U2 == << "u", "2" >>

GoodStart == Strftime(<< 2024, 1, 1 >>)

GoodEnd == Strftime(<< 2024, 1, 7 >>)

\* a valid query: the fields a family of inputs does not vary
BaseInput ==
    [user_id |-> U1, dimensions |-> << "country" >>, metrics |-> << "sessions" >>,
     start_date |-> GoodStart, end_date |-> GoodEnd, limit |-> Some(10),
     property_id |-> None, filters |-> None, order_by |-> None,
     currency_code |-> None, granularity |-> Some("daily"),
     include_empty_rows |-> Some(FALSE)]

\* filter definitions: {field_name, string_filter: {value}} and malformed ones
Def(field, value) ==
    JDict(<< Entry("field_name", field),
             Entry("string_filter", JDict(<< Entry("value", value) >>)) >>)

FilterDefs ==
    { Def(JStr("country"), JStr("US")),
      Def(JStr("city"), JStr("Paris")),
      Def(JStr("country"), JInt("5")),
      JDict(<< Entry("string_filter", JDict(<< Entry("value", JStr("US")) >>)) >>),
      JDict(<< Entry("field_name", JStr("country")), Entry("string_filter", JStr("US")) >>),
      JStr("country") }

\* values of the dimension_filter key
FilterConfigs ==
    { JDict(<< Entry("filter", d) >>) : d \in FilterDefs }
      \cup { JDict(<<>>), JDict(<< Entry("not_filter", JStr("x")) >>),
             JStr("abc"), JStr("myfilter"), JInt("5") }

FlatKeys == { "country", "city", "deviceCategory" }

FlatValues == { JStr("US"), JStr("CA"), JInt("5") }

\* flat mappings: 1..MaxFilterEntries entries with distinct keys
FlatMappings ==
    { JDict(es) : es \in { e \in SeqsUpTo({ Entry(k, v) : k \in FlatKeys, v \in FlatValues },
                                          MaxFilterEntries) :
                             /\ e # <<>>
                             /\ \A i, j \in 1..Len(e) : i # j => e[i].k # e[j].k } }

ExtraEntries ==
    { <<>>, << Entry("country", JStr("US")) >>,
      << Entry("filter", Def(JStr("city"), JStr("Paris"))) >> }

FilterSpecs ==
    { JDict(<<>>) }
      \cup FlatMappings
      \cup { JDict(<< Entry("dimension_filter", c) >> \o x) : c \in FilterConfigs, x \in ExtraEntries }
      \cup { JDict(<< Entry("country", JStr("US")), Entry("dimension_filter", c) >>) : c \in FilterConfigs }
      \cup { JDict(<< Entry("filter", d) >>) : d \in FilterDefs }
      \cup { JDict(<< Entry("country", JStr("CA")), Entry("filter", d) >>) : d \in FilterDefs }

OrderKey(key, name_key, name) == Entry(key, JDict(<< Entry(name_key, name) >>))

OrderClauses ==
    { JDict(<< OrderKey("metric", "metric_name", JStr("sessions")) >>),
      JDict(<< OrderKey("metric", "metric_name", JStr("sessions")), Entry("desc", JBool("true")) >>),
      JDict(<< OrderKey("dimension", "dimension_name", JStr("country")), Entry("desc", JBool("false")) >>),
      JDict(<< OrderKey("dimension", "dimension_name", JStr("date")),
               OrderKey("metric", "metric_name", JStr("users")) >>),
      JDict(<< Entry("desc", JBool("true")) >>),
      JDict(<< Entry("metric", JStr("sessions")) >>),
      JDict(<< OrderKey("dimension", "name", JStr("country")) >>),
      JDict(<< OrderKey("metric", "metric_name", JStr("sessions")), Entry("desc", JStr("yes")) >>) }

DimNames == { "date", "week", "country", "daily" }

Granularities ==
    { None, Some(""), Some("daily"), Some("weekly"), Some("monthly"), Some("Daily"),
      Some("hourly") }

\* the valid queries the request builder is checked on: each family varies
\* the fields one part of the builder reads
DimInputs ==
    { [BaseInput EXCEPT !.dimensions = d, !.granularity = g] :
        d \in SeqsUpTo(DimNames, MaxDims), g \in Granularities }

FilterInputs == { [BaseInput EXCEPT !.filters = Some(f)] : f \in FilterSpecs }

OrderInputs ==
    { [BaseInput EXCEPT !.order_by = Some(o)] : o \in SeqsUpTo(OrderClauses, MaxOrderBy) }

BuildInputs == DimInputs \cup FilterInputs \cup OrderInputs

\* the arguments callers hand to query_ga4_data, valid and not
QueryInputs ==
    { [BaseInput EXCEPT !.user_id = u, !.dimensions = d, !.metrics = m, !.start_date = s,
                        !.limit = l, !.property_id = p, !.filters = f, !.order_by = o] :
        u \in { U1, << " " >> \o U1, << " " >>, U2 },
        d \in { <<>>, << "country" >> },
        m \in { <<>>, << "sessions" >> },
        s \in { GoodStart, Strftime(<< 2024, 2, 30 >>) },
        l \in { None, Some(0), Some(1), Some(MaxLimit), Some(MaxLimit + 1) },
        p \in { None, Some(""), Some("p9") },
        f \in { None, Some(JDict(<< Entry("country", JStr("US")) >>)),
                Some(JDict(<< Entry("country", JInt("5")) >>)) },
        o \in { None, Some(<< JDict(<< Entry("metric", JStr("sessions")) >>) >>) } }

\* the credential store
ConnRows ==
    { ConnRow(u, t, p) : u \in { U1, U2 }, t \in { "r1", "r2" },
                         p \in { None, Some(""), Some("p1"), Some("p2") } }

Dbs == SeqsUpTo(ConnRows, MaxDbRows)

QueryDbs ==
    { <<>>,
      << ConnRow(U1, "r1", None) >>,
      << ConnRow(U1, "r1", Some("p1")) >>,
      << ConnRow(U2, "r2", Some("p2")), ConnRow(U1, "r1", Some("")), ConnRow(U1, "r2", Some("p1")) >> }

\* backend responses: the value cells, and rows cut from them (a row of a
\* negative width has none)
Cells ==
    << << "1", "2", "0" >>, << "3", "0" >>, << "x" >>, <<>>, << "-", "5" >>,
       << " ", "7" >>, << "1", "_", "0" >>, << "1", ".", "5" >> >>

CellAt(k) == Cells[(k % Len(Cells)) + 1]

ReportRow(nd, nm, start) ==
    [dimension_values |-> [i \in 1..(IF nd < 0 THEN 0 ELSE nd) |-> << "U", "S" >>],
     metric_values |-> [i \in 1..(IF nm < 0 THEN 0 ELSE nm) |-> CellAt(start + i - 1)]]

\* the rows a response with k dimension and l metric headers may carry: of
\* the headers' widths, or one value short or long on one axis
RowsFor(k, l) ==
    { ReportRow(k, l, 0), ReportRow(k, l, 2), ReportRow(k, l, 5),
      ReportRow(k - 1, l, 0), ReportRow(k + 1, l, 2),
      ReportRow(k, l - 1, 2), ReportRow(k, l + 1, 0) }

DimensionHeaders == { <<>>, << "country" >>, << "country", "users" >> }

\* up to MaxHeaders metric headers: "sessions" nowhere, once, or first twice
MetricHeaders ==
    UNION { { [i \in 1..n |-> IF i = j \/ (j = n + 1 /\ i <= 2) THEN "sessions" ELSE "users"] :
                j \in 0..(n + 1) } : n \in 0..MaxHeaders }

Responses ==
    UNION { { [dimension_headers |-> dh, metric_headers |-> mh, rows |-> rs] :
                rs \in SeqsUpTo(RowsFor(Len(dh), Len(mh)), MaxRows) } :
            dh \in DimensionHeaders, mh \in MetricHeaders }

QueryResponses ==
    { [dimension_headers |-> << "country" >>, metric_headers |-> << "sessions" >>, rows |-> rs] :
        rs \in { <<>>,
                 << ReportRow(1, 1, 0), ReportRow(1, 1, 1) >>,
                 << ReportRow(1, 1, 0), ReportRow(1, 2, 0) >> } }

(***************************************************************************)
(* Specifications.                                                         *)
(***************************************************************************)
\* the server after start-up: no invocation under way
Init ==
    /\ pc = "idle"
    /\ db \in QueryDbs
    /\ Fresh

Next ==
    \/ QueryCall(QueryInputs)
    \/ LookupCredentials
    \/ RefreshTokens
    \/ CreateClient
    \/ BuildStage
    \/ ExecuteRequest(QueryResponses)
    \/ ProcessStage
    \/ DateRangesCall
    \/ Return

Spec == Init /\ [][Next]_vars

\* an invocation at a stage of get_ga4_data, the earlier stages passed
AtStage(stage, inputs, tables, done, token, prop, requests, responses) ==
    /\ pc = stage
    /\ input \in { Some(i) : i \in inputs }
    /\ db \in tables
    /\ calls = done
    /\ refresh_token = token
    /\ property_id = prop
    /\ request \in requests
    /\ response \in responses
    /\ result = None
    /\ now = None

\* get_user_credentials on every store of the bounds
InitCreds ==
    AtStage("lookup", { BaseInput, [BaseInput EXCEPT !.property_id = Some("p9")] }, Dbs,
            <<>>, None, None, { None }, { None })

SpecCreds == InitCreds /\ [][LookupCredentials]_vars

\* the request builder on every query of BuildInputs
InitBuild ==
    AtStage("build", BuildInputs, { << ConnRow(U1, "r1", Some("p1")) >> },
            << "credential_lookup", "token_refresh" >>, Some("r1"), Some("p1"),
            { None }, { None })

SpecBuild == InitBuild /\ [][BuildStage]_vars

\* the normaliser on every response of the bounds
InitProcess ==
    AtStage("process", { BaseInput }, { << ConnRow(U1, "r1", Some("p1")) >> },
            << "credential_lookup", "token_refresh", "run_report" >>, Some("r1"), Some("p1"),
            { Some(BuildRequest(BaseInput, "p1").request) },
            { Some(r) : r \in Responses })

SpecProcess == InitProcess /\ [][ProcessStage]_vars

\* get_common_date_ranges on every date of the bounds
SpecDates == Init /\ [][DateRangesCall \/ Return]_vars

(***************************************************************************)
(* Properties of the query pipeline.                                       *)
(***************************************************************************)
FailureKeys == { "success", "error", "data", "rowCount" }

IsFailureEnvelope(r) ==
    /\ DOMAIN r = FailureKeys
    /\ r.success = FALSE
    /\ r.error # <<>> /\ r.error[1] # ""
    /\ r.data = <<>>
    /\ r.rowCount = 0

\* C1: every invocation of query_ga4_data that has entered the tool can go on
\* until it returns, and what it returns is an envelope: a success after all
\* stages passed, or, whichever stage failed, success=false with a non-empty
\* error message, data the empty sequence and rowCount=0.
C1_AlwaysEnvelope ==
    /\ pc \in { "lookup", "refresh", "client", "build", "execute", "process" }
         => result = None /\ ENABLED Next
    /\ pc = "done" =>
         /\ result # None
         /\ "success" \in DOMAIN result[1]
         /\ IF result[1].success
            THEN response # None /\ calls = << "credential_lookup", "token_refresh", "run_report" >>
            ELSE IsFailureEnvelope(result[1])

C1_Witness ==
    /\ pc = "done"
    /\ response # None
    /\ result = Some(Failure(MsgProcessFailed))

\* C2 as claimed: a query with dimensions and metrics both empty ends with
\* the InvalidRequest envelope, no external call made before it.
C2_Original ==
    (pc \in { "done", "rejected" } /\ input[1].dimensions = <<>> /\ input[1].metrics = <<>>)
        => result = Some(Failure(MsgInvalidRequest)) /\ calls = <<>>

\* C2, amended: a query whose metrics are empty (so every query with both
\* lists empty) is refused by the metrics validator of the input model, with
\* "At least one metric must be specified", and no credential lookup, token
\* refresh or backend call is made in that invocation.
C2_EmptyRefusedBeforeAnyCall ==
    (input # None /\ input[1].metrics = <<>>) =>
        /\ pc = "rejected"
        /\ calls = <<>>
        /\ refresh_token = None /\ request = None /\ response = None
        /\ \E i \in 1..Len(result[1].validation_errors) :
             result[1].validation_errors[i] = << "metrics", "At least one metric must be specified" >>

C2_Witness ==
    /\ pc = "rejected"
    /\ input[1].dimensions = <<>> /\ input[1].metrics = <<>>
    /\ result[1].validation_errors = << << "metrics", "At least one metric must be specified" >> >>
    /\ calls = <<>>

(***************************************************************************)
(* Properties of the request builder.                                      *)
(***************************************************************************)
Count(s, x) == Cardinality({ i \in 1..Len(s) : s[i] = x })

\* the dimension a recognised granularity stands for
MappedDimension(g) == CASE g = "daily" -> "date" [] g = "weekly" -> "week" [] g = "monthly" -> "month"

RecognisedGranularity ==
    /\ input[1].granularity # None
    /\ input[1].granularity[1] \in { "daily", "weekly", "monthly" }

\* C3 as claimed: the mapped dimension appears exactly once in the request's
\* dimensions, appended at the end iff absent from the user's list, which
\* stays as a prefix.
C3_Original ==
    (pc = "execute" /\ RecognisedGranularity) =>
        LET D == input[1].dimensions
            F == request[1].dimensions
            m == MappedDimension(input[1].granularity[1])
        IN  /\ Count(F, m) = 1
            /\ SubSeq(F, 1, Len(D)) = D
            /\ F = (IF m \in Range(D) THEN D ELSE Append(D, m))

\* C3, amended: the user's dimensions stay, in order, as a prefix of the
\* request's dimensions; the mapped dimension is appended, once and at the
\* end, exactly when neither it nor the granularity word itself is among the
\* user's dimensions; so it appears exactly once unless the user listed it
\* twice or listed the granularity word.
C3_GranularityDimension ==
    (pc = "execute" /\ RecognisedGranularity) =>
        LET D == input[1].dimensions
            F == request[1].dimensions
            g == input[1].granularity[1]
            m == MappedDimension(g)
        IN  /\ Len(F) >= Len(D) /\ SubSeq(F, 1, Len(D)) = D
            /\ Len(F) <= Len(D) + 1
            /\ Len(F) = Len(D) + 1 <=> (m \notin Range(D) /\ g \notin Range(D))
            /\ Len(F) = Len(D) + 1 => F[Len(F)] = m
            /\ (g \notin Range(D) /\ Count(D, m) <= 1) => Count(F, m) = 1

C3_Witness ==
    /\ pc = "execute"
    /\ input[1].granularity = Some("weekly")
    /\ input[1].dimensions = << "country", "date" >>
    /\ request[1].dimensions = << "country", "date", "week" >>

IsFlatStringMapping(f) ==
    /\ f.d # <<>>
    /\ ~HasKey(f, "dimension_filter") /\ ~HasKey(f, "filter")
    /\ \A i \in 1..Len(f.d) : f.d[i].v.kind = "str"

\* C4: a flat mapping of N > 1 field names to strings compiles to an AND
\* group of exactly N equality predicates, one per entry in insertion order;
\* with one entry the predicate itself is the filter.
C4_FlatMappingIsAndGroup ==
    (pc \in { "execute", "done" } /\ input[1].filters # None
        /\ IsFlatStringMapping(input[1].filters[1])) =>
        LET es == input[1].filters[1].d
            N == Len(es)
        IN  /\ pc = "execute"
            /\ LET e == request[1].dimension_filter
               IN  IF N = 1
                   THEN e.tag = "filter" /\ e.field_name = es[1].k /\ e.value = es[1].v.s
                   ELSE /\ e.tag = "and_group"
                        /\ Len(e.expressions) = N
                        /\ \A i \in 1..N :
                             /\ e.expressions[i].tag = "filter"
                             /\ e.expressions[i].field_name = es[i].k
                             /\ e.expressions[i].value = es[i].v.s

C4_Witness ==
    /\ pc = "execute"
    /\ input[1].filters = Some(JDict(<< Entry("city", JStr("CA")), Entry("country", JStr("US")) >>))
    /\ request[1].dimension_filter = AndGroup(<< FilterExpr("city", "CA"), FilterExpr("country", "US") >>)

WellFormedDef(x) ==
    /\ x.kind = "dict"
    /\ HasKey(x, "field_name") /\ GetKey(x, "field_name").kind = "str"
    /\ HasKey(x, "string_filter") /\ GetKey(x, "string_filter").kind = "dict"
    /\ HasKey(GetKey(x, "string_filter"), "value")
    /\ GetKey(GetKey(x, "string_filter"), "value").kind = "str"

\* a filter of one of the three shapes, the shape told by key presence
RecognisedShape(f) ==
    IF HasKey(f, "dimension_filter")
    THEN /\ GetKey(f, "dimension_filter").kind = "dict"
         /\ HasKey(GetKey(f, "dimension_filter"), "filter")
         /\ WellFormedDef(GetKey(GetKey(f, "dimension_filter"), "filter"))
    ELSE IF HasKey(f, "filter")
         THEN WellFormedDef(GetKey(f, "filter"))
         ELSE \A i \in 1..Len(f.d) : f.d[i].v.kind = "str"

\* C5 as claimed: a non-empty filter of none of the three shapes ends the
\* query with the InvalidFilter envelope; no request is built from it.
C5_UnrecognisedShapeFails ==
    (pc \in { "execute", "done" } /\ input[1].filters # None /\ input[1].filters[1].d # <<>>
        /\ ~RecognisedShape(input[1].filters[1]))
        => pc = "done" /\ result = Some(Failure(MsgInvalidFilter))

(***************************************************************************)
(* Properties of the response normaliser.                                  *)
(***************************************************************************)
\* each record of data is exactly the headers zipped with the row's values
RecordsMatchHeaders ==
    LET resp == response[1]
        K == Len(resp.dimension_headers)
        L == Len(resp.metric_headers)
    IN  /\ result[1].success
        /\ result[1].rowCount = Len(resp.rows)
        /\ Len(result[1].data) = Len(resp.rows)
        /\ \A r \in 1..Len(resp.rows) :
             LET rec == result[1].data[r]
             IN  /\ DOMAIN rec = Range(resp.dimension_headers) \cup Range(resp.metric_headers)
                 /\ Cardinality(DOMAIN rec) = K + L
                 /\ \A i \in 1..K : rec[resp.dimension_headers[i]] = resp.rows[r].dimension_values[i]
                 /\ \A i \in 1..L : rec[resp.metric_headers[i]] = resp.rows[r].metric_values[i]

\* every row carries one value per header, and no header name occurs twice
WellFormedResponse(resp) ==
    LET names == resp.dimension_headers \o resp.metric_headers
    IN  /\ \A r \in 1..Len(resp.rows) :
             /\ Len(resp.rows[r].dimension_values) = Len(resp.dimension_headers)
             /\ Len(resp.rows[r].metric_values) = Len(resp.metric_headers)
        /\ \A i, j \in 1..Len(names) : i # j => names[i] # names[j]

\* C6 as claimed: whatever response the backend gives (one that fails the
\* conversion aside), its M rows become M records of exactly K+L keys, the
\* header names, header[i] naming value[i].
C6_Original ==
    (pc = "done" /\ \A r \in 1..Len(response[1].rows) : ~row_raises(response[1], response[1].rows[r]))
        => RecordsMatchHeaders

\* C6, amended: for a response whose rows each carry exactly K dimension and
\* L metric values and whose K+L header names are pairwise distinct, the
\* normaliser emits exactly M records in row order, each with exactly the
\* K+L header names as keys, header[i] naming value[i] on both axes.
C6_RowsZipHeaders ==
    (pc = "done" /\ WellFormedResponse(response[1])) => RecordsMatchHeaders

C6_Witness ==
    /\ pc = "done"
    /\ WellFormedResponse(response[1])
    /\ Len(response[1].rows) = MaxRows
    /\ response[1].dimension_headers = << "country" >>
    /\ response[1].metric_headers = << "sessions", "users" >>
    /\ result[1].data[2] = [country |-> << "U", "S" >>, sessions |-> << "x" >>, users |-> <<>>]

\* the integer a value cell of the model denotes to int(), if any
CellInt(c) ==
    CASE c = << "1", "2", "0" >> -> << 120 >>
      [] c = << "3", "0" >>      -> << 30 >>
      [] c = << "-", "5" >>      -> << 0 - 5 >>
      [] c = << " ", "7" >>      -> << 7 >>
      [] c = << "1", "_", "0" >> -> << 10 >>
      [] OTHER                   -> <<>>

\* the numeric values of the cells under a metric header named "sessions"
SessionsCells(resp) ==
    { rc \in (1..Len(resp.rows)) \X (1..Len(resp.metric_headers)) :
        /\ rc[2] <= Len(resp.rows[rc[1]].metric_values)
        /\ resp.metric_headers[rc[2]] = "sessions"
        /\ CellInt(resp.rows[rc[1]].metric_values[rc[2]]) # <<>> }

RECURSIVE SumCells(_, _)
SumCells(resp, S) ==
    IF S = {} THEN 0
    ELSE LET rc == CHOOSE x \in S : TRUE
         IN  CellInt(resp.rows[rc[1]].metric_values[rc[2]])[1] + SumCells(resp, S \ {rc})

\* C7: on success totalSessions is the sum, over all rows, of the values of
\* the metric named "sessions" that parse as integers; a value that does not
\* parse, or is missing, adds nothing and does not fail the conversion; with
\* no metric named "sessions" the total is 0.
C7_TotalSessions ==
    (pc = "done" /\ \A r \in 1..Len(response[1].rows) : ~row_raises(response[1], response[1].rows[r])) =>
        /\ result[1].success
        /\ result[1].totalSessions = SumCells(response[1], SessionsCells(response[1]))
        /\ "sessions" \notin Range(response[1].metric_headers) => result[1].totalSessions = 0

C7_Witness ==
    /\ pc = "done"
    /\ response[1].metric_headers = << "sessions" >>
    /\ Len(response[1].rows) = 2
    /\ response[1].rows[1].metric_values = << << "1", "2", "0" >> >>
    /\ response[1].rows[2].metric_values = << << "x" >> >>
    /\ result[1].success
    /\ result[1].totalSessions = 120

\* C8: when a row carries more dimension or metric values than there are
\* headers, the whole normalisation fails with the response-processing
\* envelope: data is empty and rowCount 0, whatever rows came before it.
C8_BadRowFailsAll ==
    (pc = "done" /\ \E r \in 1..Len(response[1].rows) :
                      \/ Len(response[1].rows[r].dimension_values) > Len(response[1].dimension_headers)
                      \/ Len(response[1].rows[r].metric_values) > Len(response[1].metric_headers))
        => /\ result = Some(Failure(MsgProcessFailed))
           /\ result[1].data = <<>> /\ result[1].rowCount = 0

C8_Witness ==
    /\ pc = "done"
    /\ Len(response[1].rows) = 2
    /\ Len(response[1].rows[1].metric_values) = Len(response[1].metric_headers)
    /\ Len(response[1].rows[1].dimension_values) = Len(response[1].dimension_headers)
    /\ Len(response[1].rows[2].metric_values) > Len(response[1].metric_headers)
    /\ result = Some(Failure(MsgProcessFailed))

(***************************************************************************)
(* Properties of the date suggestions.                                     *)
(***************************************************************************)
\* the date a "YYYY-MM-DD" text reads as
ReadDate(t) ==
    << DigitsValue(SubSeq(t, 1, 4)), DigitsValue(SubSeq(t, 6, 7)), DigitsValue(SubSeq(t, 9, 10)) >>

PreviousMonth(d) == IF d[2] = 1 THEN << d[1] - 1, 12 >> ELSE << d[1], d[2] - 1 >>

MonthLength(y, m) ==
    CASE m \in { 1, 3, 5, 7, 8, 10, 12 } -> 31
      [] m \in { 4, 6, 9, 11 } -> 30
      [] OTHER -> IF y \in { 2020, 2024, 2028 } THEN 29 ELSE 28

\* C9: last_month runs from the first to the last calendar day of the month
\* before the current one, across year ends and Februaries; on 2025-03-01 it
\* is 2025-02-01..2025-02-28, on 2024-03-01 it ends 2024-02-29.
C9_LastMonth ==
    pc = "dates_done" =>
        LET r == result[1].dateRanges.last_month
            p == PreviousMonth(now[1])
        IN  /\ DateFormatOk(r.start_date) /\ DateFormatOk(r.end_date)
            /\ ReadDate(r.start_date) = << p[1], p[2], 1 >>
            /\ ReadDate(r.end_date) = << p[1], p[2], MonthLength(p[1], p[2]) >>
            /\ now[1] = << 2025, 3, 1 >> =>
                 /\ r.start_date = << "2", "0", "2", "5", "-", "0", "2", "-", "0", "1" >>
                 /\ r.end_date = << "2", "0", "2", "5", "-", "0", "2", "-", "2", "8" >>
            /\ now[1] = << 2024, 3, 1 >> =>
                 r.end_date = << "2", "0", "2", "4", "-", "0", "2", "-", "2", "9" >>

C9_Witness ==
    /\ pc = "dates_done"
    /\ now = Some(<< 2024, 3, 1 >>)
    /\ result[1].dateRanges.last_month.end_date = << "2", "0", "2", "4", "-", "0", "2", "-", "2", "9" >>

(***************************************************************************)
(* Properties of the credential resolver.                                  *)
(***************************************************************************)
\* the store answered the lookup (the call itself did not fail)
StoreAnswered == result # Some(Failure(MsgCredentials(<< ExcText >>)))

UserRows == { i \in 1..Len(db) : db[i].user_id = input[1].user_id }

Resolution(usable(_)) ==
    (pc \in { "refresh", "done" } /\ StoreAnswered) =>
        LET good == { i \in UserRows : usable(db[i].property_id) }
        IN  IF UserRows = {}
            THEN /\ pc = "done"
                 /\ IsFailureEnvelope(result[1])
                 /\ \E k \in 1..Len(result[1].error) : result[1].error[k] = " not found in Supabase."
            ELSE IF good = {}
            THEN /\ pc = "done"
                 /\ result = Some(Failure(MsgCredentials(MsgNoProperty(input[1].user_id))))
            ELSE LET first == CHOOSE i \in good : \A j \in good : i <= j
                 IN  /\ pc = "refresh"
                     /\ refresh_token = Some(db[first].refresh_token)
                     /\ input[1].property_id = None => property_id = db[first].property_id

NonNull(p) == p # None

NonNullNonEmpty(p) == p # None /\ p # Some("")

StageOrder == << "credential_lookup", "token_refresh", "run_report" >>

IsPrefix(s, t) == Len(s) <= Len(t) /\ SubSeq(t, 1, Len(s)) = s

\* the number of external calls made when an invocation is at a stage
CallsAt(stage) ==
    CASE stage = "lookup" -> 0
      [] stage = "refresh" -> 1
      [] stage \in { "client", "build", "execute" } -> 2
      [] stage = "process" -> 3

\* C11: within one invocation the external calls are made in the order
\* credential lookup, token refresh, backend report call, each at most once,
\* and the response is normalised only after the report call; once a stage
\* has failed the invocation only returns (no later stage runs, no call is
\* made again), what later stages would have produced is absent, and the
\* envelope carries no data.
C11_StagesOnceInOrder ==
    /\ [](/\ IsPrefix(calls, StageOrder)
          /\ pc \in { "lookup", "refresh", "client", "build", "execute", "process" }
               => calls = SubSeq(StageOrder, 1, CallsAt(pc))
          /\ refresh_token # None => Len(calls) >= 1
          /\ request # None => Len(calls) >= 2
          /\ response # None => calls = StageOrder /\ request # None
          /\ (pc = "done" /\ ~result[1].success) =>
               /\ result[1].data = <<>> /\ result[1].rowCount = 0
               /\ result[1].error[1] = "Failed to retrieve user credentials: "
                    => calls = SubSeq(StageOrder, 1, 1) /\ refresh_token = None
               /\ result[1].error[1] = "Failed to refresh authentication tokens: "
                    => calls = SubSeq(StageOrder, 1, 2) /\ request = None
               /\ result[1].error[1] = "GA4 API request failed: "
                    => calls = StageOrder /\ response = None
          /\ (pc = "done" /\ result[1].success) => calls = StageOrder /\ response # None)
    /\ [][/\ calls' # calls /\ calls' # <<>> => calls' = Append(calls, StageOrder[Len(calls) + 1])
          /\ pc = "done" => pc' = "idle" /\ calls' = <<>> /\ request' = None /\ response' = None
          /\ (pc' = "done" /\ ~result'[1].success) =>
               /\ Len(calls') <= Len(calls) + 1
               /\ refresh_token' = refresh_token /\ request' = request /\ response' = response]_vars

C11_Witness ==
    /\ pc = "done"
    /\ calls = << "credential_lookup", "token_refresh" >>
    /\ result = Some(Failure(MsgRefresh(<< "No access token received from Google" >>)))
    /\ refresh_token # None /\ request = None /\ response = None

(***************************************************************************)
(* Properties of the limit.                                                *)
(***************************************************************************)
Clamp(v) == IF v < MinLimit THEN MinLimit ELSE IF v > MaxLimit THEN MaxLimit ELSE v

LimitError == << "limit", "Limit must be between 1 and 10000" >>

LimitRefused ==
    /\ pc = "rejected"
    /\ \E i \in 1..Len(result[1].validation_errors) : result[1].validation_errors[i] = LimitError

\* C12 as claimed: a limit outside 1..10000 is not refused; the query goes on
\* and the request carries the limit clamped into [1,10000].
C12_Original ==
    (input # None /\ input[1].limit # None) =>
        /\ ~LimitRefused
        /\ request # None => request[1].limit = Some(Clamp(input[1].limit[1]))

\* C12, amended: a limit below 1 or above 10000 is refused at the input
\* boundary with "Limit must be between 1 and 10000": the tool body does not
\* run, so no call is made and no request is built; a limit inside the range,
\* or a null limit, is never the reason of a refusal and is passed to the
\* backend unchanged.
C12_LimitRefusedOutsideRange ==
    input # None =>
        LET l == input[1].limit
        IN  IF l # None /\ (l[1] < 1 \/ l[1] > 10000)
            THEN /\ LimitRefused
                 /\ calls = <<>> /\ request = None /\ response = None
            ELSE /\ ~LimitRefused
                 /\ request # None => request[1].limit = l

C12_Witness ==
    /\ pc = "rejected"
    /\ input[1].limit = Some(10001)
    /\ result[1].validation_errors = << LimitError >>
    /\ calls = <<>> /\ request = None

(***************************************************************************)
(* Properties of the property override.                                    *)
(***************************************************************************)
\* the property id the credential resolver returns for the user of the query
ResolvedProperty == get_user_credentials(db, input[1].user_id).property_id

\* the request built, and the success envelope, name property p
Targets(p) ==
    /\ request # None => request[1].property = << "properties/", p >>
    /\ (pc = "done" /\ result[1].success) => result[1].propertyId = p

\* C13 as claimed: a property_id given with the query (not null) supersedes
\* the resolved one in the request and in the success envelope; without it
\* both name the resolved property.
C13_Original ==
    (input # None /\ pc \in { "execute", "process", "done" }) =>
        IF input[1].property_id # None
        THEN Targets(input[1].property_id[1])
        ELSE Targets(ResolvedProperty)

\* C13, amended: a property_id given with the query that is not the empty
\* string supersedes the resolved one in the request and in the success
\* envelope; when it is null or the empty string both name the property the
\* credential resolver returned.
C13_PropertyOverride ==
    (input # None /\ pc \in { "execute", "process", "done" }) =>
        IF input[1].property_id # None /\ input[1].property_id # Some("")
        THEN Targets(input[1].property_id[1])
        ELSE Targets(ResolvedProperty)

C13_Witness ==
    /\ pc = "done"
    /\ result[1].success
    /\ input[1].property_id = Some("p9")
    /\ ResolvedProperty = "p1"
    /\ request[1].property = << "properties/", "p9" >>
    /\ result[1].propertyId = "p9"

(***************************************************************************)
(* Properties of the choice of the filter shape.                           *)
(***************************************************************************)
\* e is the one field/string-equality predicate of a filter definition
IsPredicateOf(e, def) ==
    /\ WellFormedDef(def)
    /\ e = FilterExpr(GetKey(def, "field_name").s,
                      GetKey(GetKey(def, "string_filter"), "value").s)

\* e holds one predicate per entry of the mapping, and nothing else
IsFlatCompilation(e, f) ==
    LET N == Len(f.d)
        ps == IF e.tag = "and_group" THEN e.expressions ELSE << e >>
    IN  /\ e.tag = (IF N = 1 THEN "filter" ELSE "and_group")
        /\ Len(ps) = N
        /\ \A i \in 1..N : ps[i] = FilterExpr(f.d[i].k, f.d[i].v.s)

\* C14 as claimed: the shape of a non-empty filter is told by key presence,
\* (a) when the dimension_filter key is there, else (b) when the filter key is
\* there, else (c); a request built under (a) or (b) carries the single
\* predicate of that shape's definition, whatever other keys the input holds,
\* and under (c) one predicate per entry.
C14_OneShapeByKeyPresence ==
    (pc = "execute" /\ input[1].filters # None /\ input[1].filters[1].d # <<>>) =>
        LET f == input[1].filters[1]
            e == request[1].dimension_filter
        IN  IF HasKey(f, "dimension_filter")
            THEN LET c == GetKey(f, "dimension_filter")
                 IN  /\ c.kind = "dict" /\ HasKey(c, "filter")
                     /\ IsPredicateOf(e, GetKey(c, "filter"))
            ELSE IF HasKey(f, "filter")
                 THEN IsPredicateOf(e, GetKey(f, "filter"))
                 ELSE IsFlatCompilation(e, f)

(***************************************************************************)
(* Properties of the order-by compilation.                                 *)
(***************************************************************************)
\* the clause is tagged: it has a metric or a dimension key
IsTagged(o) == HasKey(o, "metric") \/ HasKey(o, "dimension")

\* a tagged clause names its metric or dimension, the tag told with metric
\* first, and its desc, when there, is a boolean
IsNamed(o) ==
    LET key == IF HasKey(o, "metric") THEN "metric" ELSE "dimension"
        name_key == IF HasKey(o, "metric") THEN "metric_name" ELSE "dimension_name"
    IN  /\ GetKey(o, key).kind = "dict"
        /\ HasKey(GetKey(o, key), name_key)
        /\ GetKey(GetKey(o, key), name_key).kind = "str"
        /\ HasKey(o, "desc") => GetKey(o, "desc").kind = "bool"

\* the sort clause claimed for a tagged clause
ClaimedClause(o) ==
    LET key == IF HasKey(o, "metric") THEN "metric" ELSE "dimension"
        name_key == IF HasKey(o, "metric") THEN "metric_name" ELSE "dimension_name"
    IN  [kind |-> key,
         name |-> GetKey(GetKey(o, key), name_key).s,
         desc |-> HasKey(o, "desc") /\ GetKey(o, "desc").s = "true"]

\* C15: when the request is built, its sort clauses are, in input order, one
\* per input clause that has a metric or a dimension key, tagged metric when
\* both keys are there, descending false when the clause has no desc; a clause
\* with neither key adds nothing and does not fail the build (a request is
\* built whenever every tagged clause names its metric or dimension); and
\* when no clause remains the request carries no ordering.
C15_OrderByCompilation ==
    (pc \in { "execute", "done" } /\ input[1].order_by # None /\ input[1].filters = None) =>
        LET kept == SelectSeq(input[1].order_by[1], IsTagged)
        IN  /\ (\A i \in 1..Len(kept) : IsNamed(kept[i])) => pc = "execute"
            /\ pc = "execute" =>
                 /\ \A i \in 1..Len(kept) : IsNamed(kept[i])
                 /\ request[1].order_bys =
                      IF kept = <<>> THEN None
                      ELSE Some([i \in 1..Len(kept) |-> ClaimedClause(kept[i])])

C15_Witness ==
    /\ pc = "execute"
    /\ input[1].order_by =
         Some(<< JDict(<< Entry("desc", JBool("true")) >>),
                 JDict(<< OrderKey("dimension", "dimension_name", JStr("date")),
                          OrderKey("metric", "metric_name", JStr("users")) >>) >>)
    /\ request[1].order_bys = Some(<< OrderBy("metric", "users", FALSE) >>)

====
